---- MODULE Spec2Model ----
(***************************************************************************)
(* A model of libwayshot's capture pipeline (libwayshot/src/lib.rs and     *)
(* libwayshot/src/dispatch.rs): the per-output frame capture state machine *)
(* driven by compositor events, the shared-memory resources of a capture,  *)
(* and the callers that fan captures out and combine their results.        *)
(*                                                                         *)
(* A thread runs from one blocking call to the next in one step: the code  *)
(* between two blocking_dispatch calls touches only that thread's own      *)
(* state.  blocking_dispatch handles every event that is pending on the    *)
(* thread's event queue (one batch) and blocks while there is none.        *)
(* Operating-system calls and the connection are assumed not to fail.      *)
(***************************************************************************)
EXTENDS Integers, Sequences, FiniteSets, TLC

\* Number of outputs in the connection's output list.
NumOutputs == 2
\* Most events the compositor sends for one frame object.
MaxEvents == 4

VARIABLES
    globals,        \* interfaces in the compositor's global list (self.globals)
    output_infos,   \* self.output_infos
    exited,         \* exit(1) was called: the process is gone
    panicked,       \* the calling thread panicked
    cap,            \* per output: the locals of that output's capture_frame_copy
    queue,          \* per output: events pending on the capture's event queue
    script,         \* per output: events the compositor has yet to send
    budget,         \* per output: events the compositor may still choose to send
    dispatched,     \* per output: events handled so far, in order (history)
    call,           \* the library call in progress
    cpc,            \* the caller's position
    ret,            \* what the call returned
    image,          \* the image the call returned
    cfc,            \* capture_frame_copies: handles joined, frames collected, result
    layer,          \* overlay_frames: its LayerShellState and its position
    lqueue,         \* events pending on the overlay's event queue
    lbudget,        \* events the compositor may still send to the overlay
    rot,            \* per output: the rotation thread of that output's frame
    acc,            \* screenshot: the spawning thread's position and its fold
    refresh,        \* refresh_outputs: its position, its OutputCaptureState, its queries
    rqueue,         \* events pending on the event queue of refresh_outputs
    renv,           \* what the compositor may still send during a refresh
    given,          \* the arguments of a region computation
    computed        \* what the region computation returned

refreshVars == <<refresh, rqueue, renv>>
connVars == <<globals, output_infos, refreshVars>>
procVars == <<exited, panicked>>
capVars == <<cap, queue, script, budget, dispatched>>
callVars == <<call, cpc, ret, image>>
shotVars == <<cfc, layer, lqueue, lbudget, rot, acc>>
regionVars == <<given, computed>>

vars == <<connVars, procVars, capVars, callVars, shotVars, regionVars>>

Outputs == 1..NumOutputs

Min(S) == CHOOSE m \in S : \A x \in S : m <= x
Max(S) == CHOOSE m \in S : \A x \in S : x <= m

-----------------------------------------------------------------------------
(* Compositor globals and outputs *)

ScreencopyManager == "zwlr_screencopy_manager_v1"
Shm == "wl_shm"
Compositor == "wl_compositor"
LayerShell == "zwlr_layer_shell_v1"

\* The globals the capture path binds.
CaptureGlobals == {ScreencopyManager, Shm}

\* The outputs of the connection, as a refresh left them: side by side,
\* every second one rotated.
OutputAt(i) ==
    [wl_output |-> [id |-> i, global |-> i], name |-> "", description |-> "",
     mode |-> [width |-> 0, height |-> 0],
     transform |-> IF i % 2 = 0 THEN "_90" ELSE "Normal",
     scale |-> 1,
     dimensions |-> [x |-> 2 * (i - 1), y |-> 0,
                     width |-> IF i % 2 = 0 THEN 1 ELSE 2,
                     height |-> IF i % 2 = 0 THEN 2 ELSE 1]]

ConnectedOutputs == [i \in Outputs |-> OutputAt(i)]

\* No refresh is in progress, and none is made.
\* handled is history: the registry events the refresh has handled, in order.
\* bound is the compositor's side of the binds: the wl_output objects the
\* refresh has created, in order.  queried is history: how many position
\* queries the refresh has made.
NoRefresh == [pc |-> "idle", state |-> [outputs |-> <<>>], xdg_outputs |-> <<>>,
              calls |-> 0, binds |-> 0, handled |-> <<>>, bound |-> <<>>,
              queried |-> 0]
NoRefreshEvents == [globals |-> 0, announced |-> 0, properties |-> 0]

\* No region computation is made.
NoGiven == [kind |-> "none"]
NoComputed == [op |-> "none"]

-----------------------------------------------------------------------------
(* Events of a screencopy frame object *)

NoFormat == [format |-> "None", width |-> 0, height |-> 0, stride |-> 0]

Ev(t) == [type |-> t, format |-> "None", width |-> 0, height |-> 0, stride |-> 0]

BufferEv(f, w, h, s) ==
    [type |-> "Buffer", format |-> f, width |-> w, height |-> h, stride |-> s]

\* What a compositor may send: offers of two allowlisted formats, of one
\* format outside the allowlist, of a format value the bindings do not know,
\* and the other events of the protocol.
FrameEvents ==
    {BufferEv("Argb8888", 2, 1, 8), BufferEv("Xbgr2101010", 1, 3, 4),
     BufferEv("Rgb565", 2, 2, 4), BufferEv("Unknown", 1, 1, 4),
     Ev("BufferDone"), Ev("Ready"), Ev("Failed"), Ev("Flags"), Ev("Damage"),
     Ev("LinuxDmabuf")}

-----------------------------------------------------------------------------
(* dispatch.rs: CaptureFrameState and its event handler *)

NewCaptureFrameState == [formats |-> <<>>, state |-> "None", buffer_done |-> FALSE]

\* A Buffer event whose format is not a known enum value ends the process.
EventExits(ev) == ev.type = "Buffer" /\ ev.format = "Unknown"

\* The handler takes a Flags event for the sign of a finished copy.
FrameEvent_FlagsFinishes(frame, ev) ==
    CASE ev.type = "Buffer" ->
            [frame EXCEPT !.formats = Append(@,
                [format |-> ev.format, width |-> ev.width,
                 height |-> ev.height, stride |-> ev.stride])]
      [] ev.type = "Flags" -> [frame EXCEPT !.state = "Finished"]
      [] ev.type = "Ready" -> [frame EXCEPT !.state = "Finished"]
      [] ev.type = "Failed" -> [frame EXCEPT !.state = "Failed"]
      [] ev.type \in {"Damage", "LinuxDmabuf"} -> frame
      [] ev.type = "BufferDone" -> [frame EXCEPT !.buffer_done = TRUE]

\* Dispatch<ZwlrScreencopyFrameV1, ()>: the event handler, for an event
\* that does not end the process.
FrameEvent(frame, ev) ==
    CASE ev.type = "Buffer" ->
            [frame EXCEPT !.formats = Append(@,
                [format |-> ev.format, width |-> ev.width,
                 height |-> ev.height, stride |-> ev.stride])]
      [] ev.type = "Flags" -> frame
      [] ev.type = "Ready" -> [frame EXCEPT !.state = "Finished"]
      [] ev.type = "Failed" -> [frame EXCEPT !.state = "Failed"]
      [] ev.type \in {"Damage", "LinuxDmabuf"} -> frame
      [] ev.type = "BufferDone" -> [frame EXCEPT !.buffer_done = TRUE]

\* One blocking_dispatch: the pending events in order, stopping at exit(1).
RECURSIVE DispatchPending(_, _, _)
DispatchPending(frame, pending, handled) ==
    IF pending = <<>> THEN [frame |-> frame, exits |-> FALSE, handled |-> handled]
    ELSE IF EventExits(Head(pending))
         THEN [frame |-> frame, exits |-> TRUE,
               handled |-> Append(handled, Head(pending))]
         ELSE DispatchPending(FrameEvent(frame, Head(pending)), Tail(pending),
                              Append(handled, Head(pending)))

-----------------------------------------------------------------------------
(* lib.rs: one output's capture *)

Allowlist == {"Xbgr2101010", "Abgr2101010", "Argb8888", "Xrgb8888", "Xbgr8888"}

\* convert.rs is not part of the sources at hand: every allowlisted format
\* has a converter.
create_converter(format) == format \in Allowlist

NewCapture ==
    [pc |-> "unspawned", state |-> NewCaptureFrameState, frame |-> FALSE,
     frame_format |-> NoFormat, fd |-> "none", file_len |-> 0,
     shm_pool |-> FALSE, buffer |-> FALSE, copied |-> FALSE,
     frame_mmap |-> "none", frame_guard |-> "none", result |-> "none"]

\* The allowlist taken as an order of preference: the recorded format that
\* comes first in the allowlist.
SelectFormat_ByPreference(formats) ==
    LET order == <<"Xbgr2101010", "Abgr2101010", "Argb8888", "Xrgb8888", "Xbgr8888">>
        offered(p) == \E k \in DOMAIN formats : formats[k].format = order[p]
    IN  IF \E p \in DOMAIN order : offered(p)
        THEN LET p == Min({q \in DOMAIN order : offered(q)})
                 k == Min({j \in DOMAIN formats : formats[j].format = order[p]})
             IN  formats[k]
        ELSE NoFormat

\* The first recorded format that is on the allowlist, or NoFormat.
RECURSIVE SelectFormat(_)
SelectFormat(formats) ==
    IF formats = <<>> THEN NoFormat
    ELSE IF Head(formats).format \in Allowlist THEN Head(formats)
         ELSE SelectFormat(Tail(formats))

\* capture_frame_copy after capture_output_frame_shm_from_file returned a
\* guard: map the file, convert in place, return the FrameCopy.
MapAndConvert(c) ==
    IF create_converter(c.frame_format.format)
    THEN [c EXCEPT !.frame_mmap = "converted", !.fd = "closed",
                   !.result = "Ok", !.pc = "returned"]
    ELSE [c EXCEPT !.frame_mmap = "dropped", !.frame_guard = "released",
                   !.fd = "closed", !.result = "NoSupportedBufferFormat",
                   !.pc = "returned"]

\* The loop returns a guard on any recorded outcome, Failed included.
CopyLoop_AnyOutcome(c) ==
    IF c.state.state # "None"
    THEN MapAndConvert([c EXCEPT !.frame_guard = "alive"])
    ELSE [c EXCEPT !.pc = "copying"]

\* The loop of capture_output_frame_inner, up to its next blocking_dispatch.
CopyLoop(c) ==
    CASE c.state.state = "Failed" ->
            [c EXCEPT !.result = "FramecopyFailed", !.fd = "closed",
                      !.pc = "returned"]
      [] c.state.state = "Finished" ->
            MapAndConvert([c EXCEPT !.frame_guard = "alive"])
      [] OTHER -> [c EXCEPT !.pc = "copying"]

\* capture_output_frame_inner: bind wl_shm, create pool and buffer, copy.
CaptureOutputFrameInner(c, g) ==
    IF Shm \notin g
    THEN [c EXCEPT !.pc = "panicked", !.result = "Panic", !.fd = "closed"]
    ELSE CopyLoop([c EXCEPT !.shm_pool = TRUE, !.buffer = TRUE, !.copied = TRUE])

\* capture_output_frame_get_state once buffer_done is set, and what follows
\* it in capture_output_frame_shm_from_file.
AfterBufferDone(c, g) ==
    LET frame_format == SelectFormat(c.state.formats)
    IN  IF frame_format = NoFormat
        THEN [c EXCEPT !.result = "NoSupportedBufferFormat", !.fd = "closed",
                       !.pc = "returned"]
        ELSE CaptureOutputFrameInner(
                 [c EXCEPT !.frame_format = frame_format,
                           !.file_len = frame_format.stride * frame_format.height],
                 g)

\* capture_frame_copy from its start to the first blocking_dispatch.
CaptureFrameCopyStart(c, g) ==
    LET c1 == [c EXCEPT !.fd = "open", !.state = NewCaptureFrameState]
    IN  IF ScreencopyManager \notin g
        THEN [c1 EXCEPT !.result = "ProtocolNotFound", !.fd = "closed",
                        !.pc = "returned"]
        ELSE [c1 EXCEPT !.frame = TRUE, !.pc = "negotiating"]

\* The wait ends with the first offer, not with BufferDone.
NegotiationDone_OnFirstOffer(state) == state.buffer_done \/ state.formats # <<>>

\* The condition that ends the wait of capture_output_frame_get_state.
NegotiationDone(state) == state.buffer_done

\* The thread after a blocking_dispatch returned.
AfterDispatch(c, g) ==
    IF c.pc = "negotiating"
    THEN IF NegotiationDone(c.state) THEN AfterBufferDone(c, g) ELSE c
    ELSE CopyLoop(c)

Running == ~exited /\ ~panicked

CaptureFrameCopy(i) ==
    /\ Running
    /\ cap[i].pc = "start"
    /\ cap' = [cap EXCEPT ![i] = CaptureFrameCopyStart(cap[i], globals)]
    /\ UNCHANGED <<regionVars, connVars, procVars, queue, script, budget, dispatched,
                   callVars, shotVars>>

\* One event queue for the whole connection: a thread's dispatch handles
\* whatever is pending, the events of another output's frame included.
BlockingDispatch_OneQueue(i) ==
    /\ Running
    /\ cap[i].pc \in {"negotiating", "copying"}
    /\ \E k \in Outputs : queue[k] # <<>>
    /\ LET j == Min({k \in Outputs : queue[k] # <<>>})
           d == DispatchPending(cap[i].state, queue[j], dispatched[i])
       IN  /\ dispatched' = [dispatched EXCEPT ![i] = d.handled]
           /\ exited' = d.exits
           /\ cap' = IF d.exits THEN cap
                     ELSE [cap EXCEPT ![i] =
                              AfterDispatch([cap[i] EXCEPT !.state = d.frame], globals)]
           /\ queue' = [queue EXCEPT ![j] = <<>>]
    /\ UNCHANGED <<regionVars, connVars, panicked, script, budget, callVars, shotVars>>

BlockingDispatch(i) ==
    /\ Running
    /\ cap[i].pc \in {"negotiating", "copying"}
    /\ queue[i] # <<>>
    /\ LET d == DispatchPending(cap[i].state, queue[i], dispatched[i])
       IN  /\ dispatched' = [dispatched EXCEPT ![i] = d.handled]
           /\ exited' = d.exits
           /\ cap' = IF d.exits THEN cap
                     ELSE [cap EXCEPT ![i] =
                              AfterDispatch([cap[i] EXCEPT !.state = d.frame], globals)]
    /\ queue' = [queue EXCEPT ![i] = <<>>]
    /\ UNCHANGED <<regionVars, connVars, panicked, script, budget, callVars, shotVars>>

\* The compositor sends its next event for output i's frame object.
Deliver(i) ==
    /\ Running
    /\ cap[i].pc \in {"negotiating", "copying"}
    /\ script[i] # <<>>
    /\ queue' = [queue EXCEPT ![i] = Append(@, Head(script[i]))]
    /\ script' = [script EXCEPT ![i] = Tail(@)]
    /\ UNCHANGED <<regionVars, connVars, procVars, cap, budget, dispatched, callVars,
                   shotVars>>

\* The compositor sends an event of its choice for output i's frame object.
DeliverAny(i) ==
    /\ Running
    /\ cap[i].pc \in {"negotiating", "copying"}
    /\ budget[i] > 0
    /\ \E ev \in FrameEvents : queue' = [queue EXCEPT ![i] = Append(@, ev)]
    /\ budget' = [budget EXCEPT ![i] = @ - 1]
    /\ UNCHANGED <<regionVars, connVars, procVars, cap, script, dispatched, callVars,
                   shotVars>>

-----------------------------------------------------------------------------
(* lib.rs: screenshot_single_output *)

NoCall == [op |-> "none"]

\* An image: the outputs whose frames were pasted into it, the bottom one
\* first, where in the image each was pasted, and the image's size.
NoImage == [layers |-> <<>>, at |-> <<>>, width |-> 0, height |-> 0]

\* The owned image of one frame, as try_into builds it from the frame's map.
ImageOf(i, frame_format) ==
    [layers |-> <<i>>, at |-> <<[x |-> 0, y |-> 0]>>,
     width |-> frame_format.width, height |-> frame_format.height]

NewJoin == [joined |-> 0, frames |-> <<>>, result |-> "none", returned |-> FALSE]
\* configures is history: the Configure events handled so far, each with
\* the frame the loop of overlay_frames was at.
NoLayer == [phase |-> "none", frame |-> 0, configured_outputs |-> {},
            surfaces |-> {}, acked |-> {}, committed |-> {}, configures |-> {}]
NewRotation == [pc |-> "unspawned", result |-> "none", image |-> NoImage]
NewFold == [spawned |-> 0, dropped |-> 0, joined |-> 0, kind |-> "None",
            error |-> "none", image |-> NoImage]

ScreenshotSingleOutput(i) ==
    /\ Running
    /\ cpc = "idle"
    /\ call' = [op |-> "screenshot_single_output", output |-> i]
    /\ cap' = [cap EXCEPT ![i].pc = "start"]
    /\ cpc' = "capturing"
    /\ UNCHANGED <<regionVars, connVars, procVars, queue, script, budget, dispatched,
                   ret, image, shotVars>>

\* capture_frame_copy came back: an error or a panic goes to the caller,
\* a frame starts to be converted into an owned image.
SingleCaptured ==
    /\ Running
    /\ cpc = "capturing"
    /\ call.op = "screenshot_single_output"
    /\ LET i == call.output
       IN  /\ cap[i].pc \in {"returned", "panicked"}
           /\ CASE cap[i].pc = "panicked" ->
                     /\ panicked' = TRUE
                     /\ ret' = "Panic"
                     /\ cpc' = "returned"
                     /\ cap' = cap
                [] cap[i].result # "Ok" ->
                     /\ ret' = cap[i].result
                     /\ cpc' = "returned"
                     /\ UNCHANGED <<panicked, cap>>
                [] OTHER ->
                     /\ cap' = [cap EXCEPT ![i].frame_mmap = "reading"]
                     /\ cpc' = "converting"
                     /\ UNCHANGED <<panicked, ret>>
    /\ UNCHANGED <<regionVars, connVars, exited, queue, script, budget, dispatched,
                   call, image, shotVars>>

\* frame_copy.try_into() finished; frame_guard is dropped at the end of the
\* function, after it.
SingleConverted ==
    /\ Running
    /\ cpc = "converting"
    /\ call.op = "screenshot_single_output"
    /\ \E converts \in BOOLEAN :
          /\ ret' = IF converts THEN "Ok" ELSE "ConversionError"
          /\ image' = IF converts THEN ImageOf(call.output, cap[call.output].frame_format)
                      ELSE NoImage
    /\ cap' = [cap EXCEPT ![call.output].frame_mmap = "consumed",
                          ![call.output].frame_guard = "released"]
    /\ cpc' = "returned"
    /\ UNCHANGED <<regionVars, connVars, procVars, queue, script, budget, dispatched,
                   call, shotVars>>

-----------------------------------------------------------------------------
(* One capture of one output *)

Init ==
    /\ globals \in {{Compositor, LayerShell} \cup g : g \in SUBSET CaptureGlobals}
    /\ output_infos = ConnectedOutputs
    /\ exited = FALSE
    /\ panicked = FALSE
    /\ cap = [i \in Outputs |-> NewCapture]
    /\ queue = [i \in Outputs |-> <<>>]
    /\ script = [i \in Outputs |-> <<>>]
    /\ budget = [i \in Outputs |-> MaxEvents]
    /\ dispatched = [i \in Outputs |-> <<>>]
    /\ call = NoCall
    /\ cpc = "idle"
    /\ ret = "none"
    /\ image = NoImage
    /\ cfc = NewJoin
    /\ layer = NoLayer
    /\ lqueue = <<>>
    /\ lbudget = 0
    /\ rot = [i \in Outputs |-> NewRotation]
    /\ acc = NewFold
    /\ refresh = NoRefresh
    /\ rqueue = <<>>
    /\ renv = NoRefreshEvents
    /\ given = NoGiven
    /\ computed = NoComputed

Next ==
    \/ \E i \in Outputs : ScreenshotSingleOutput(i)
    \/ \E i \in Outputs : CaptureFrameCopy(i)
    \/ \E i \in Outputs : DeliverAny(i)
    \/ \E i \in Outputs : BlockingDispatch(i)
    \/ SingleCaptured
    \/ SingleConverted

Spec == Init /\ [][Next]_vars

-----------------------------------------------------------------------------
(* lib.rs: screenshot_outputs, screenshot and capture_frame_copies *)

NoRegion == [x_coordinate |-> 0, y_coordinate |-> 0, width |-> 0, height |-> 0]

\* The far edges taken for the size.
BoundingRegion_ExtentAsSize(outputs) ==
    LET ix == DOMAIN outputs
    IN  [x_coordinate |-> Min({outputs[k].dimensions.x : k \in ix}),
         y_coordinate |-> Min({outputs[k].dimensions.y : k \in ix}),
         width |-> Max({outputs[k].dimensions.x + outputs[k].dimensions.width :
                           k \in ix}),
         height |-> Max({outputs[k].dimensions.y + outputs[k].dimensions.height :
                            k \in ix})]

\* The region screenshot_outputs computes: the bounding box of the outputs.
BoundingRegion(outputs) ==
    LET ix == DOMAIN outputs
        x1 == Min({outputs[k].dimensions.x : k \in ix})
        y1 == Min({outputs[k].dimensions.y : k \in ix})
        x2 == Max({outputs[k].dimensions.x + outputs[k].dimensions.width : k \in ix})
        y2 == Max({outputs[k].dimensions.y + outputs[k].dimensions.height : k \in ix})
    IN  [x_coordinate |-> x1, y_coordinate |-> y1,
         width |-> x2 - x1, height |-> y2 - y1]

\* Only one rectangle's edges are tested against the other's.
overlaps_OneSided(self, other) ==
    /\ self.x_coordinate < other.x_coordinate + other.width
    /\ self.y_coordinate < other.y_coordinate + other.height

\* CaptureRegion::overlaps: the two rectangles share a point in their
\* interiors.
overlaps(self, other) ==
    LET left == self.x_coordinate
        bottom == self.y_coordinate
        right == self.x_coordinate + self.width
        top == self.y_coordinate + self.height
        other_left == other.x_coordinate
        other_bottom == other.y_coordinate
        other_right == other.x_coordinate + other.width
        other_top == other.y_coordinate + other.height
    IN  left < other_right /\ other_left < right
            /\ bottom < other_top /\ other_bottom < top

\* The lists of outputs a caller may pass: the sublists of the output list.
RECURSIVE SubSeqsOf(_)
SubSeqsOf(list) ==
    IF list = <<>> THEN {<<>>}
    ELSE LET rest == SubSeqsOf(Tail(list))
         IN  rest \cup {<<Head(list)>> \o r : r \in rest}

\* The check for an empty list left out.
OutputsIsEmpty_Unchecked(outputs) == FALSE

\* screenshot_outputs returns NoOutputs at once for an empty list.
OutputsIsEmpty(outputs) == Len(outputs) = 0

Terminal(c) == c.pc \in {"returned", "panicked"}

\* The call in progress is screenshot, called directly or by screenshot_outputs.
InScreenshot == call.op \in {"screenshot", "screenshot_outputs"}

\* The regions a caller passes to screenshot directly: one that overlaps no
\* output, and the area of the second output alone.
ScreenshotRegions ==
    {[x_coordinate |-> 10, y_coordinate |-> 10, width |-> 1, height |-> 1],
     [x_coordinate |-> 2, y_coordinate |-> 0, width |-> 1, height |-> 2]}

\* screenshot called with a region, up to the first join of
\* capture_frame_copies: one spawned capture thread per output of the
\* connection's output list.
Screenshot(capture_region, freeze) ==
    /\ Running
    /\ cpc = "idle"
    /\ call' = [op |-> "screenshot", freeze |-> freeze,
                capture_region |-> capture_region]
    /\ cap' = [i \in Outputs |->
                IF i \in DOMAIN output_infos
                THEN [cap[i] EXCEPT !.pc = "start"] ELSE cap[i]]
    /\ cpc' = "capturing"
    /\ UNCHANGED <<regionVars, connVars, procVars, queue, script, budget, dispatched,
                   ret, image,
                   shotVars>>

\* screenshot_outputs up to the first join of capture_frame_copies: the
\* empty check, the bounding box, and one spawned capture thread per output
\* of the connection's output list.
ScreenshotOutputs(outputs, freeze) ==
    /\ Running
    /\ cpc = "idle"
    /\ IF OutputsIsEmpty(outputs)
       THEN /\ call' = [op |-> "screenshot_outputs", outputs |-> outputs,
                        freeze |-> freeze, capture_region |-> NoRegion]
            /\ ret' = "NoOutputs"
            /\ cpc' = "returned"
            /\ UNCHANGED <<cap, panicked>>
       ELSE IF Len(outputs) = 0
       THEN \* min() of no element is None, and unwrap() panics on it
            /\ call' = [op |-> "screenshot_outputs", outputs |-> outputs,
                        freeze |-> freeze, capture_region |-> NoRegion]
            /\ ret' = "Panic"
            /\ panicked' = TRUE
            /\ cpc' = "returned"
            /\ cap' = cap
       ELSE /\ call' = [op |-> "screenshot_outputs", outputs |-> outputs,
                        freeze |-> freeze,
                        capture_region |-> BoundingRegion(outputs)]
            /\ cap' = [i \in Outputs |->
                        IF i \in DOMAIN output_infos
                        THEN [cap[i] EXCEPT !.pc = "start"] ELSE cap[i]]
            /\ cpc' = "capturing"
            /\ UNCHANGED <<ret, panicked>>
    /\ UNCHANGED <<regionVars, connVars, exited, queue, script, budget, dispatched,
                   image, shotVars>>

\* One handle of capture_frame_copies joined: flatten() passes over a thread
\* that panicked, collect() keeps an Ok frame and stops at the first Err.
JoinStep(j, k, c, n) ==
    LET j1 == CASE c.pc = "panicked" -> [j EXCEPT !.joined = k]
                [] c.result = "Ok" ->
                      [j EXCEPT !.joined = k, !.frames = Append(@, k)]
                [] OTHER -> [j EXCEPT !.joined = k, !.result = c.result]
    IN  IF j1.result = "none" /\ j1.joined = n
        THEN [j1 EXCEPT !.result = "Ok"] ELSE j1

JoinCapture ==
    /\ Running
    /\ cpc = "capturing"
    /\ InScreenshot
    /\ cfc.result = "none"
    /\ cfc.joined < Len(output_infos)
    /\ Terminal(cap[cfc.joined + 1])
    /\ cfc' = JoinStep(cfc, cfc.joined + 1, cap[cfc.joined + 1], Len(output_infos))
    /\ UNCHANGED <<regionVars, connVars, procVars, capVars, callVars, layer, lqueue,
                   lbudget, rot, acc>>

\* The frames of a list are dropped: their maps and their guards go.
DropFrames(caps, frames) ==
    [i \in Outputs |->
        IF \E k \in DOMAIN frames : frames[k] = i
        THEN [caps[i] EXCEPT !.frame_mmap = "dropped", !.frame_guard = "released"]
        ELSE caps[i]]

-----------------------------------------------------------------------------
(* lib.rs: overlay_frames; dispatch.rs: LayerShellState *)

\* Most events the compositor sends to the overlay's surfaces.
MaxLayerEvents == 4

LayerEvents(surfaces) ==
    {[type |-> t, output |-> o] : t \in {"Configure", "Closed"}, o \in surfaces}

\* The handler of a layer surface's events: Configure records the output
\* the surface was created for and acknowledges; Closed is logged.
LayerSurfaceEvent(l, ev) ==
    IF ev.type = "Configure"
    THEN [l EXCEPT !.configured_outputs = @ \cup {ev.output},
                   !.acked = @ \cup {ev.output},
                   !.configures = @ \cup {<<ev.output, l.frame>>}]
    ELSE l

RECURSIVE LayerDispatchPending(_, _)
LayerDispatchPending(l, pending) ==
    IF pending = <<>> THEN l
    ELSE LayerDispatchPending(LayerSurfaceEvent(l, Head(pending)), Tail(pending))

\* The wait ends with the configure of any layer surface.
OverlayWait_AnyConfigure(l, frames) ==
    LET wl_output == output_infos[frames[l.frame]].wl_output
    IN  IF l.configured_outputs # {}
        THEN [l EXCEPT !.committed = @ \cup {wl_output}, !.phase = "event"]
        ELSE [l EXCEPT !.phase = "configure"]

\* The wait for the configure of the current frame's output, and past it
\* the commit of the frame's buffer and the next blocking_dispatch.
OverlayWait(l, frames) ==
    LET wl_output == output_infos[frames[l.frame]].wl_output
    IN  IF wl_output \in l.configured_outputs
        THEN [l EXCEPT !.committed = @ \cup {wl_output}, !.phase = "event"]
        ELSE [l EXCEPT !.phase = "configure"]

\* The body of the loop over the frames up to its first blocking_dispatch:
\* a surface and a layer surface for the frame's output, committed empty.
OverlaySurface(l, k, frames) ==
    OverlayWait([l EXCEPT !.frame = k,
                          !.surfaces = @ \cup {output_infos[frames[k]].wl_output}],
                frames)

\* overlay_frames from its start: the two globals, then the first frame.
OverlayStart(frames, g) ==
    IF Compositor \notin g \/ LayerShell \notin g
    THEN [NoLayer EXCEPT !.phase = "error"]
    ELSE IF frames = <<>> THEN [NoLayer EXCEPT !.phase = "done"]
    ELSE OverlaySurface(NoLayer, 1, frames)

AfterLayerDispatch(l, frames) ==
    IF l.phase = "configure" THEN OverlayWait(l, frames)
    ELSE IF l.frame = Len(frames) THEN [l EXCEPT !.phase = "done"]
    ELSE OverlaySurface(l, l.frame + 1, frames)

\* What the caller does once overlay_frames is at l.
AfterOverlay(l) ==
    CASE l.phase = "error" ->
            /\ ret' = "ProtocolNotFound"
            /\ cpc' = "returned"
            /\ cap' = DropFrames(cap, cfc.frames)
      [] l.phase = "done" ->
            /\ cpc' = "rotating"
            /\ UNCHANGED <<ret, cap>>
      [] OTHER ->
            /\ cpc' = "overlay"
            /\ UNCHANGED <<ret, cap>>

\* The scope of capture_frame_copies ends when every thread has ended: it
\* panics if a thread it did not join panicked, an Err goes to the caller of
\* screenshot, and with Ok screenshot goes on to the overlay or the rotation.
CaptureScopeEnd ==
    /\ Running
    /\ cpc = "capturing"
    /\ InScreenshot
    /\ cfc.result # "none"
    /\ \A i \in DOMAIN output_infos : Terminal(cap[i])
    /\ CASE \E i \in DOMAIN output_infos : i > cfc.joined /\ cap[i].pc = "panicked" ->
              /\ panicked' = TRUE
              /\ ret' = "Panic"
              /\ cpc' = "returned"
              /\ UNCHANGED <<cap, cfc, layer, lbudget>>
         [] cfc.result # "Ok" ->
              /\ cfc' = [cfc EXCEPT !.returned = TRUE]
              /\ ret' = cfc.result
              /\ cpc' = "returned"
              /\ cap' = DropFrames(cap, cfc.frames)
              /\ UNCHANGED <<panicked, layer, lbudget>>
         [] call.freeze ->
              /\ cfc' = [cfc EXCEPT !.returned = TRUE]
              /\ layer' = OverlayStart(cfc.frames, globals)
              /\ lbudget' = MaxLayerEvents
              /\ AfterOverlay(layer')
              /\ UNCHANGED panicked
         [] OTHER ->
              /\ cfc' = [cfc EXCEPT !.returned = TRUE]
              /\ cpc' = "rotating"
              /\ UNCHANGED <<panicked, ret, cap, layer, lbudget>>
    /\ UNCHANGED <<regionVars, connVars, exited, queue, script, budget, dispatched, call,
                   image,
                   lqueue, rot, acc>>

\* The compositor sends an event to one of the overlay's layer surfaces.
LayerDeliver ==
    /\ Running
    /\ cpc = "overlay"
    /\ lbudget > 0
    /\ \E ev \in LayerEvents(layer.surfaces) : lqueue' = Append(lqueue, ev)
    /\ lbudget' = lbudget - 1
    /\ UNCHANGED <<regionVars, connVars, procVars, capVars, callVars, cfc, layer, rot,
                   acc>>

\* One blocking_dispatch of overlay_frames and the code that follows it.
LayerDispatch ==
    /\ Running
    /\ cpc = "overlay"
    /\ lqueue # <<>>
    /\ layer' = AfterLayerDispatch(LayerDispatchPending(layer, lqueue), cfc.frames)
    /\ lqueue' = <<>>
    /\ AfterOverlay(layer')
    /\ UNCHANGED <<regionVars, connVars, procVars, queue, script, budget, dispatched,
                   call, image,
                   cfc, lbudget, rot, acc>>

-----------------------------------------------------------------------------
(* lib.rs: the rotation threads of screenshot and the fold of their results;
   image_util.rs: rotate_image_buffer *)

Portrait == {"_90", "_270", "Flipped90", "Flipped270"}

\* A quarter turn swaps the sides of the image; the other transforms keep them.
rotate_image_buffer(img, transform) ==
    IF transform \in Portrait
    THEN [img EXCEPT !.width = img.height, !.height = img.width]
    ELSE img

\* imageops::replace(bottom, top, 0, 0): top is pasted over bottom at the
\* origin; bottom keeps its size.
Replace(bottom, top) ==
    [bottom EXCEPT !.layers = @ \o top.layers, !.at = @ \o top.at]

\* Some(image) for the result of one rotation thread.
SomeResult(a, r) ==
    IF r.result = "Ok"
    THEN [a EXCEPT !.kind = "Ok", !.error = "none", !.image = r.image]
    ELSE [a EXCEPT !.kind = "Err", !.error = r.result, !.image = NoImage]

\* The closure screenshot folds the joined results with.
FoldStep(a, r) ==
    IF a.kind = "Ok"
    THEN IF r.result = "Ok"
         THEN [a EXCEPT !.image = Replace(a.image, r.image)]
         ELSE SomeResult(a, r)
    ELSE SomeResult(a, r)

\* The spawning thread starts the rotation thread of the next frame.
SpawnRotate ==
    /\ Running
    /\ cpc = "rotating"
    /\ acc.spawned < Len(cfc.frames)
    /\ acc.dropped = acc.spawned
    /\ rot' = [rot EXCEPT ![cfc.frames[acc.spawned + 1]].pc = "spawned"]
    /\ acc' = [acc EXCEPT !.spawned = @ + 1]
    /\ UNCHANGED <<regionVars, connVars, procVars, capVars, callVars, cfc, layer,
                   lqueue, lbudget>>

\* The closure that spawned the thread returns: the frame's guard and output
\* info, which it did not move into the thread, are dropped.
DropGuard ==
    /\ Running
    /\ cpc = "rotating"
    /\ acc.dropped < acc.spawned
    /\ cap' = [cap EXCEPT ![cfc.frames[acc.spawned]].frame_guard = "released"]
    /\ acc' = [acc EXCEPT !.dropped = @ + 1]
    /\ UNCHANGED <<regionVars, connVars, procVars, queue, script, budget, dispatched,
                   callVars,
                   cfc, layer, lqueue, lbudget, rot>>

\* A rotation thread starts to turn its frame's map into an owned image.
RotateBegin(i) ==
    /\ Running
    /\ rot[i].pc = "spawned"
    /\ rot' = [rot EXCEPT ![i].pc = "reading"]
    /\ cap' = [cap EXCEPT ![i].frame_mmap = "reading"]
    /\ UNCHANGED <<regionVars, connVars, procVars, queue, script, budget, dispatched,
                   callVars,
                   cfc, layer, lqueue, lbudget, acc>>

\* It has read the map to its end, and rotates the image if there is one.
RotateEnd(i) ==
    /\ Running
    /\ rot[i].pc = "reading"
    /\ \E converts \in BOOLEAN :
          rot' = [rot EXCEPT ![i] =
                    IF converts
                    THEN [pc |-> "done", result |-> "Ok",
                          image |-> rotate_image_buffer(
                                        ImageOf(i, cap[i].frame_format),
                                        output_infos[i].transform)]
                    ELSE [pc |-> "done", result |-> "ConversionError",
                          image |-> NoImage]]
    /\ cap' = [cap EXCEPT ![i].frame_mmap = "consumed"]
    /\ UNCHANGED <<regionVars, connVars, procVars, queue, script, budget, dispatched,
                   callVars,
                   cfc, layer, lqueue, lbudget, acc>>

\* The spawning thread joins the next rotation thread and folds its result.
JoinRotate ==
    /\ Running
    /\ cpc = "rotating"
    /\ acc.spawned = Len(cfc.frames)
    /\ acc.dropped = acc.spawned
    /\ acc.joined < Len(cfc.frames)
    /\ rot[cfc.frames[acc.joined + 1]].pc = "done"
    /\ acc' = [FoldStep(acc, rot[cfc.frames[acc.joined + 1]]) EXCEPT !.joined = @ + 1]
    /\ UNCHANGED <<regionVars, connVars, procVars, capVars, callVars, cfc, layer, lqueue,
                   lbudget, rot>>

\* screenshot returns the folded result, or NoOutputs if there was no frame.
ScreenshotReturn ==
    /\ Running
    /\ cpc = "rotating"
    /\ acc.spawned = Len(cfc.frames)
    /\ acc.dropped = acc.spawned
    /\ acc.joined = Len(cfc.frames)
    /\ ret' = CASE acc.kind = "None" -> "NoOutputs"
                [] acc.kind = "Ok" -> "Ok"
                [] OTHER -> acc.error
    /\ image' = acc.image
    /\ cpc' = "returned"
    /\ UNCHANGED <<regionVars, connVars, procVars, capVars, call, shotVars>>

-----------------------------------------------------------------------------
(* A screenshot of several outputs *)

\* What the compositor does for one output in a screenshot of several: the
\* copy succeeds, the copy fails, or no allowlisted format is offered.
ShotScripts ==
    {<<BufferEv("Argb8888", 2, 1, 8), Ev("BufferDone"), Ev("Ready")>>,
     <<BufferEv("Argb8888", 2, 1, 8), Ev("BufferDone"), Ev("Failed")>>,
     <<BufferEv("Rgb565", 2, 2, 4), Ev("BufferDone")>>}

\* The globals a screenshot binds; the compositor has them all, or all but one.
ShotGlobals == {ScreencopyManager, Shm, Compositor, LayerShell}

InitShot ==
    /\ globals \in {ShotGlobals} \cup {ShotGlobals \ {g} : g \in ShotGlobals}
    /\ output_infos = ConnectedOutputs
    /\ exited = FALSE
    /\ panicked = FALSE
    /\ cap = [i \in Outputs |-> NewCapture]
    /\ queue = [i \in Outputs |-> <<>>]
    /\ script \in [Outputs -> ShotScripts]
    /\ budget = [i \in Outputs |-> 0]
    /\ dispatched = [i \in Outputs |-> <<>>]
    /\ call = NoCall
    /\ cpc = "idle"
    /\ ret = "none"
    /\ image = NoImage
    /\ cfc = NewJoin
    /\ layer = NoLayer
    /\ lqueue = <<>>
    /\ lbudget = 0
    /\ rot = [i \in Outputs |-> NewRotation]
    /\ acc = NewFold
    /\ refresh = NoRefresh
    /\ rqueue = <<>>
    /\ renv = NoRefreshEvents
    /\ given = NoGiven
    /\ computed = NoComputed

NextShot ==
    \/ \E outputs \in SubSeqsOf(output_infos), freeze \in BOOLEAN :
          ScreenshotOutputs(outputs, freeze)
    \/ \E capture_region \in ScreenshotRegions, freeze \in BOOLEAN :
          Screenshot(capture_region, freeze)
    \/ \E i \in Outputs : CaptureFrameCopy(i)
    \/ \E i \in Outputs : Deliver(i)
    \/ \E i \in Outputs : BlockingDispatch(i)
    \/ JoinCapture
    \/ CaptureScopeEnd
    \/ LayerDeliver
    \/ LayerDispatch
    \/ SpawnRotate
    \/ DropGuard
    \/ \E i \in Outputs : RotateBegin(i)
    \/ \E i \in Outputs : RotateEnd(i)
    \/ JoinRotate
    \/ ScreenshotReturn

SpecShot == InitShot /\ [][NextShot]_vars

\* The screenshot pipeline where the compositor goes on delivering the
\* events it has for a frame and every thread that can take a step
\* eventually takes it.
SpecShotFair ==
    /\ SpecShot
    /\ \A i \in Outputs :
          /\ WF_vars(CaptureFrameCopy(i))
          /\ WF_vars(Deliver(i))
          /\ WF_vars(BlockingDispatch(i))
    /\ WF_vars(JoinCapture)
    /\ WF_vars(CaptureScopeEnd)

-----------------------------------------------------------------------------
(* lib.rs: from_connection, refresh_outputs and get_all_outputs;
   dispatch.rs: OutputCaptureState and its event handlers *)

\* Calls of refresh_outputs on one connection, the one of from_connection
\* included.
MaxRefreshes == 2
\* Globals the compositor announces to the registries of one connection.
MaxGlobals == 3
\* Property events the compositor sends to one connection.
MaxProperties == 1

XdgOutputManager == "zxdg_output_manager_v1"

\* The lowest wl_output version the registry handler binds.
MinOutputVersion == 4

NoObject == [id |-> 0, global |-> 0]

REvent(proxy, type, object, index, text, x, y) ==
    [proxy |-> proxy, type |-> type, object |-> object, index |-> index,
     text |-> text, x |-> x, y |-> y]

\* An announcement of the global with the registry name n.
GlobalEvents(n) ==
    {REvent("wl_registry", "Global", NoObject, n, "wl_output", 4, 0),
     REvent("wl_registry", "Global", NoObject, n, "wl_output", 3, 0),
     REvent("wl_registry", "Global", NoObject, n, "wl_seat", 4, 0)}

\* The events of a bound wl_output.
OutputEvents(wl_output) ==
    {REvent("wl_output", "Name", wl_output, 0, "DP-1", 0, 0),
     REvent("wl_output", "Description", wl_output, 0, "Monitor", 0, 0),
     REvent("wl_output", "Mode", wl_output, 0, "", 2, 1),
     REvent("wl_output", "Geometry", wl_output, 0, "_90", 0, 0),
     REvent("wl_output", "Geometry", wl_output, 0, "Unknown", 0, 0),
     REvent("wl_output", "Scale", wl_output, 0, "", 2, 0),
     REvent("wl_output", "Done", wl_output, 0, "", 0, 0)}

\* The events of the logical-position query that carries the index k.
XdgOutputEvents(k) ==
    {REvent("zxdg_output_v1", "LogicalPosition", NoObject, k, "", 2, 1),
     REvent("zxdg_output_v1", "LogicalSize", NoObject, k, "", 2, 1),
     REvent("zxdg_output_v1", "Done", NoObject, k, "", 0, 0)}

\* The OutputInfo the registry handler pushes for a bound wl_output.
NewOutputInfo(wl_output) ==
    [wl_output |-> wl_output, name |-> "", description |-> "",
     mode |-> [width |-> 0, height |-> 0], transform |-> "Normal", scale |-> 1,
     dimensions |-> [x |-> 0, y |-> 0, width |-> 0, height |-> 0]]

\* The registry handler keeps only the output announced last.
RegistryEvent_KeepsLatest(r, ev) ==
    IF ev.type = "Global" /\ ev.text = "wl_output" /\ ev.x >= MinOutputVersion
    THEN [r EXCEPT !.binds = @ + 1,
                   !.bound = Append(@, [id |-> r.binds + 1, global |-> ev.index]),
                   !.state.outputs =
                       <<NewOutputInfo([id |-> r.binds + 1, global |-> ev.index])>>]
    ELSE r

\* The registry handler binds a wl_output of any version.
RegistryEvent_AnyVersion(r, ev) ==
    IF ev.type = "Global" /\ ev.text = "wl_output"
    THEN [r EXCEPT !.binds = @ + 1,
                   !.bound = Append(@, [id |-> r.binds + 1, global |-> ev.index]),
                   !.state.outputs = Append(@,
                       NewOutputInfo([id |-> r.binds + 1, global |-> ev.index]))]
    ELSE r

\* Dispatch<WlRegistry, ()>: a wl_output of version 4 or more is bound and
\* appended; r.binds counts the wl_output objects bound so far.
RegistryEvent(r, ev) ==
    IF ev.type = "Global" /\ ev.text = "wl_output" /\ ev.x >= MinOutputVersion
    THEN [r EXCEPT !.binds = @ + 1,
                   !.bound = Append(@, [id |-> r.binds + 1, global |-> ev.index]),
                   !.state.outputs = Append(@,
                       NewOutputInfo([id |-> r.binds + 1, global |-> ev.index]))]
    ELSE r

\* The positions of the OutputInfo a wl_output event is for.
Found(r, ev) == {k \in DOMAIN r.state.outputs : r.state.outputs[k].wl_output = ev.object}

\* The handler updates the first OutputInfo of the list, whatever the
\* wl_output of the event.
OutputEvent_AtFirst(r, ev) ==
    LET k == 1
    IN  CASE ev.type = "Name" -> [r EXCEPT !.state.outputs[k].name = ev.text]
          [] ev.type = "Description" ->
                [r EXCEPT !.state.outputs[k].description = ev.text]
          [] ev.type = "Mode" ->
                [r EXCEPT !.state.outputs[k].mode = [width |-> ev.x, height |-> ev.y]]
          [] ev.type = "Geometry" /\ ev.text # "Unknown" ->
                [r EXCEPT !.state.outputs[k].transform = ev.text]
          [] ev.type = "Scale" -> [r EXCEPT !.state.outputs[k].scale = ev.x]
          [] OTHER -> r

\* Dispatch<WlOutput, ()>: the first OutputInfo with that wl_output is
\* updated; the handler unwraps the search.
OutputEvent(r, ev) ==
    LET k == Min(Found(r, ev))
    IN  CASE ev.type = "Name" -> [r EXCEPT !.state.outputs[k].name = ev.text]
          [] ev.type = "Description" ->
                [r EXCEPT !.state.outputs[k].description = ev.text]
          [] ev.type = "Mode" ->
                [r EXCEPT !.state.outputs[k].mode = [width |-> ev.x, height |-> ev.y]]
          [] ev.type = "Geometry" /\ ev.text # "Unknown" ->
                [r EXCEPT !.state.outputs[k].transform = ev.text]
          [] ev.type = "Scale" -> [r EXCEPT !.state.outputs[k].scale = ev.x]
          [] OTHER -> r

\* Dispatch<ZxdgOutputV1, usize>: the OutputInfo at the index is updated;
\* the handler unwraps the lookup.
XdgOutputEvent(r, ev) ==
    LET k == ev.index
    IN  CASE ev.type = "LogicalPosition" ->
                [r EXCEPT !.state.outputs[k].dimensions.x = ev.x,
                          !.state.outputs[k].dimensions.y = ev.y]
          [] ev.type = "LogicalSize" ->
                [r EXCEPT !.state.outputs[k].dimensions.width = ev.x,
                          !.state.outputs[k].dimensions.height = ev.y]
          [] OTHER -> r

\* The handler panics on this event: its unwrap finds nothing.
RefreshEventPanics(r, ev) ==
    \/ ev.proxy = "wl_output" /\ Found(r, ev) = {}
    \/ ev.proxy = "zxdg_output_v1" /\ ev.index \notin DOMAIN r.state.outputs

RefreshEvent(r, ev) ==
    CASE ev.proxy = "wl_registry" -> RegistryEvent(r, ev)
      [] ev.proxy = "wl_output" -> OutputEvent(r, ev)
      [] OTHER -> XdgOutputEvent(r, ev)

\* The events a roundtrip dispatches, in order, up to a panic.
RECURSIVE RefreshDispatchPending(_, _)
RefreshDispatchPending(r, pending) ==
    IF pending = <<>> THEN [refresh |-> r, panics |-> FALSE]
    ELSE IF RefreshEventPanics(r, Head(pending))
         THEN [refresh |-> r, panics |-> TRUE]
         ELSE RefreshDispatchPending(
                  [RefreshEvent(r, Head(pending)) EXCEPT
                      !.handled = IF Head(pending).proxy = "wl_registry"
                                  THEN Append(@, Head(pending)) ELSE @],
                  Tail(pending))

\* The check for an empty list left out: the refresh returns whatever it found.
NoOutputAdvertised_Ignored(outputs) == FALSE

\* state.outputs.is_empty(): the compositor advertised no usable wl_output.
NoOutputAdvertised(outputs) == outputs = <<>>

\* self.output_infos is extended, not replaced.
StoreOutputs_Extends(old, outputs) == old \o outputs

\* self.output_infos = state.outputs
StoreOutputs(old, outputs) == outputs

\* get_all_outputs
get_all_outputs == output_infos

\* refresh_outputs from its start to the first roundtrip: a new state and a
\* new event queue, the position manager bound, the registry requested.
RefreshOutputs ==
    /\ Running
    /\ refresh.pc = "idle"
    /\ refresh.calls < MaxRefreshes
    /\ IF XdgOutputManager \notin globals
       THEN /\ panicked' = TRUE
            /\ UNCHANGED refreshVars
       ELSE /\ refresh' = [refresh EXCEPT !.pc = "roundtrip1",
                                          !.state = [outputs |-> <<>>],
                                          !.xdg_outputs = <<>>,
                                          !.handled = <<>>,
                                          !.bound = <<>>,
                                          !.queried = 0]
            /\ rqueue' = <<>>
            /\ renv' = [renv EXCEPT !.announced = 0]
            /\ UNCHANGED panicked
    /\ UNCHANGED <<regionVars, globals, output_infos, exited, capVars, callVars,
                   shotVars>>

\* The compositor announces a global, or sends an event of a bound output or
\* of a position query that was made and is not destroyed.
RefreshDeliver ==
    /\ Running
    /\ refresh.pc \in {"roundtrip1", "roundtrip2", "roundtrip3"}
    /\ \/ /\ renv.globals > 0
          /\ \E ev \in GlobalEvents(renv.announced + 1) : rqueue' = Append(rqueue, ev)
          /\ renv' = [renv EXCEPT !.globals = @ - 1, !.announced = @ + 1]
       \/ /\ renv.properties > 0
          /\ \E k \in DOMAIN refresh.bound :
                \E ev \in OutputEvents(refresh.bound[k]) :
                    rqueue' = Append(rqueue, ev)
          /\ renv' = [renv EXCEPT !.properties = @ - 1]
       \/ /\ renv.properties > 0
          /\ \E k \in DOMAIN refresh.xdg_outputs :
                \E ev \in XdgOutputEvents(refresh.xdg_outputs[k]) :
                    rqueue' = Append(rqueue, ev)
          /\ renv' = [renv EXCEPT !.properties = @ - 1]
    /\ UNCHANGED <<regionVars, globals, output_infos, refresh, procVars, capVars, callVars,
                   shotVars>>

\* One roundtrip and the code after it up to the next one: after the second
\* a position query per output, after the third the queries destroyed and
\* the outputs stored, or exit(1) if there is none.
Roundtrip ==
    /\ Running
    /\ refresh.pc \in {"roundtrip1", "roundtrip2", "roundtrip3"}
    /\ LET d == RefreshDispatchPending(refresh, rqueue)
           r == d.refresh
       IN  CASE d.panics ->
                  /\ panicked' = TRUE
                  /\ refresh' = r
                  /\ UNCHANGED <<exited, output_infos>>
             [] refresh.pc = "roundtrip1" ->
                  /\ refresh' = [r EXCEPT !.pc = "roundtrip2"]
                  /\ UNCHANGED <<procVars, output_infos>>
             [] refresh.pc = "roundtrip2" ->
                  /\ refresh' = [r EXCEPT !.pc = "roundtrip3",
                                          !.xdg_outputs =
                                              [k \in DOMAIN r.state.outputs |-> k],
                                          !.queried = Len(r.state.outputs)]
                  /\ UNCHANGED <<procVars, output_infos>>
             [] OTHER ->
                  IF NoOutputAdvertised(r.state.outputs)
                  THEN /\ exited' = TRUE
                       /\ refresh' = [r EXCEPT !.xdg_outputs = <<>>]
                       /\ UNCHANGED <<panicked, output_infos>>
                  ELSE /\ output_infos' = StoreOutputs(output_infos, r.state.outputs)
                       /\ refresh' = [r EXCEPT !.pc = "idle", !.calls = @ + 1,
                                               !.xdg_outputs = <<>>]
                       /\ UNCHANGED procVars
    /\ rqueue' = <<>>
    /\ UNCHANGED <<regionVars, globals, renv, capVars, callVars, shotVars>>

-----------------------------------------------------------------------------
(* A connection and its refreshes *)

InitRefresh ==
    /\ globals \in {{ScreencopyManager, Shm, Compositor, LayerShell} \cup g :
                       g \in SUBSET {XdgOutputManager}}
    /\ output_infos = <<>>
    /\ exited = FALSE
    /\ panicked = FALSE
    /\ cap = [i \in Outputs |-> NewCapture]
    /\ queue = [i \in Outputs |-> <<>>]
    /\ script = [i \in Outputs |-> <<>>]
    /\ budget = [i \in Outputs |-> 0]
    /\ dispatched = [i \in Outputs |-> <<>>]
    /\ call = NoCall
    /\ cpc = "idle"
    /\ ret = "none"
    /\ image = NoImage
    /\ cfc = NewJoin
    /\ layer = NoLayer
    /\ lqueue = <<>>
    /\ lbudget = 0
    /\ rot = [i \in Outputs |-> NewRotation]
    /\ acc = NewFold
    /\ refresh = NoRefresh
    /\ rqueue = <<>>
    /\ renv = [NoRefreshEvents EXCEPT !.globals = MaxGlobals,
                                      !.properties = MaxProperties]
    /\ given = NoGiven
    /\ computed = NoComputed

NextRefresh ==
    \/ RefreshOutputs
    \/ RefreshDeliver
    \/ Roundtrip

SpecRefresh == InitRefresh /\ [][NextRefresh]_vars

-----------------------------------------------------------------------------
(* A refresh from its second roundtrip on, with the outputs its first
   roundtrip discovered: the property events of the outputs and of their
   position queries, in any order and batching *)

\* Property events the compositor sends during the two roundtrips.
MaxPropertyEvents == 2

InitProperties ==
    /\ globals = {ScreencopyManager, Shm, Compositor, LayerShell, XdgOutputManager}
    /\ output_infos = <<>>
    /\ exited = FALSE
    /\ panicked = FALSE
    /\ cap = [i \in Outputs |-> NewCapture]
    /\ queue = [i \in Outputs |-> <<>>]
    /\ script = [i \in Outputs |-> <<>>]
    /\ budget = [i \in Outputs |-> 0]
    /\ dispatched = [i \in Outputs |-> <<>>]
    /\ call = NoCall
    /\ cpc = "idle"
    /\ ret = "none"
    /\ image = NoImage
    /\ cfc = NewJoin
    /\ layer = NoLayer
    /\ lqueue = <<>>
    /\ lbudget = 0
    /\ rot = [i \in Outputs |-> NewRotation]
    /\ acc = NewFold
    /\ refresh = [NoRefresh EXCEPT
          !.pc = "roundtrip2",
          !.state = [outputs |-> [k \in Outputs |->
                                     NewOutputInfo([id |-> k, global |-> k])]],
          !.binds = NumOutputs,
          !.bound = [k \in Outputs |-> [id |-> k, global |-> k]],
          !.handled = [k \in Outputs |->
                          REvent("wl_registry", "Global", NoObject, k, "wl_output",
                                 MinOutputVersion, 0)]]
    /\ rqueue = <<>>
    /\ renv = [globals |-> 1, announced |-> NumOutputs,
               properties |-> MaxPropertyEvents]
    /\ given = NoGiven
    /\ computed = NoComputed

NextProperties ==
    \/ RefreshDeliver
    \/ Roundtrip

SpecProperties == InitProperties /\ [][NextProperties]_vars

-----------------------------------------------------------------------------
(* region.rs: CaptureRegion::overlaps and TryFrom<&Vec<OutputInfo>>;
   lib.rs: the bounding box of screenshot_outputs and the composition of
   screenshot, computed for given arguments.  Coordinates are i32; the
   arguments are such that no sum or difference leaves its range. *)

\* Largest coordinate and width of the given regions and outputs.
MaxCoordinate == 2

Region(x, y, w, h) ==
    [x_coordinate |-> x, y_coordinate |-> y, width |-> w, height |-> h]

\* The regions given to overlaps: small ones, zero widths and heights
\* included, and two that lie far apart.
GivenRegions ==
    {Region(x, y, w, h) : x \in -1..MaxCoordinate, y \in 0..1,
                          w \in 0..MaxCoordinate, h \in 0..1}
        \cup {Region(0, 0, 100, 100), Region(200, 0, 50, 50)}

\* An OutputInfo of the given geometry; an output higher than wide is one
\* the compositor shows rotated by a quarter turn.
OutputWith(x, y, w, h) ==
    [NewOutputInfo(NoObject) EXCEPT
        !.transform = IF h > w THEN "_90" ELSE "Normal",
        !.dimensions = [x |-> x, y |-> y, width |-> w, height |-> h]]

\* A landscape output and a portrait one to its right.
Scene == <<OutputWith(0, 0, 1920, 1080), OutputWith(1920, 0, 1080, 1920)>>

\* The lists of outputs given: of every length up to NumOutputs.
GivenOutputs ==
    LET geometries == {OutputWith(x, y, w, h) : x \in -1..MaxCoordinate,
                                                y \in 0..1, w \in 1..2, h \in 1..2}
    IN  UNION {[1..n -> geometries] : n \in 0..NumOutputs} \cup {Scene}

\* TryFrom<&Vec<OutputInfo>> for CaptureRegion.
TryFromOutputs(value) ==
    LET x1 == Min({value[k].dimensions.x : k \in DOMAIN value})
        y1 == Min({value[k].dimensions.y : k \in DOMAIN value})
        x2 == Max({value[k].dimensions.x + value[k].dimensions.width :
                      k \in DOMAIN value})
        y2 == Max({value[k].dimensions.y + value[k].dimensions.height :
                      k \in DOMAIN value})
    IN  [x_coordinate |-> x1, y_coordinate |-> y1,
         width |-> x2 - x1, height |-> y2 - y1]

\* The frame format a compositor offers for an output: the size of the
\* output's buffer, which is the output's area before its rotation.
BufferOf(output) ==
    LET d == output.dimensions
    IN  IF output.transform \in Portrait
        THEN [format |-> "Argb8888", width |-> d.height, height |-> d.width,
              stride |-> 4 * d.height]
        ELSE [format |-> "Argb8888", width |-> d.width, height |-> d.height,
              stride |-> 4 * d.width]

\* What the rotation thread of the k-th output's frame returns.
Rotated(outputs, k) ==
    [result |-> "Ok",
     image |-> rotate_image_buffer(ImageOf(k, BufferOf(outputs[k])),
                                   outputs[k].transform)]

\* The fold of screenshot over the rotated frames from the k-th on.
RECURSIVE FoldFrames(_, _, _)
FoldFrames(a, outputs, k) ==
    IF k > Len(outputs) THEN a
    ELSE FoldFrames(FoldStep(a, Rotated(outputs, k)), outputs, k + 1)

\* a.overlaps(b), b.overlaps(a) and a.overlaps(a) for the given regions.
Overlaps ==
    /\ given.kind = "regions"
    /\ computed.op = "none"
    /\ computed' = [op |-> "overlaps",
                    ab |-> overlaps(given.a, given.b),
                    ba |-> overlaps(given.b, given.a),
                    aa |-> overlaps(given.a, given.a)]
    /\ UNCHANGED <<given, connVars, procVars, capVars, callVars, shotVars>>

\* CaptureRegion::try_from of the given outputs, and of the region it
\* returned taken as one output; min().unwrap() panics on an empty list.
TryFrom ==
    /\ given.kind = "outputs"
    /\ computed.op = "none"
    /\ computed' =
          IF given.outputs = <<>> THEN [op |-> "try_from", panics |-> TRUE]
          ELSE LET region == TryFromOutputs(given.outputs)
               IN  [op |-> "try_from", panics |-> FALSE, region |-> region,
                    again |-> TryFromOutputs(
                        <<OutputWith(region.x_coordinate, region.y_coordinate,
                                     region.width, region.height)>>)]
    /\ UNCHANGED <<given, connVars, procVars, capVars, callVars, shotVars>>

\* screenshot_outputs of the given outputs on a connection that has just
\* these outputs, every capture and conversion succeeding: the region it
\* computes and the image screenshot folds.
ComposeOutputs ==
    /\ given.kind = "outputs"
    /\ computed.op = "none"
    /\ computed' =
          IF OutputsIsEmpty(given.outputs)
          THEN [op |-> "screenshot_outputs", ret |-> "NoOutputs"]
          ELSE [op |-> "screenshot_outputs", ret |-> "Ok",
                capture_region |-> BoundingRegion(given.outputs),
                rotated |-> [k \in DOMAIN given.outputs |->
                                Rotated(given.outputs, k).image],
                image |-> FoldFrames(NewFold, given.outputs, 1).image]
    /\ UNCHANGED <<given, connVars, procVars, capVars, callVars, shotVars>>

InitRegion ==
    /\ given \in {[kind |-> "regions", a |-> a, b |-> b] :
                     a \in GivenRegions, b \in GivenRegions}
            \cup {[kind |-> "outputs", outputs |-> outputs] :
                     outputs \in GivenOutputs}
    /\ computed = NoComputed
    /\ globals = ShotGlobals
    /\ output_infos = ConnectedOutputs
    /\ exited = FALSE
    /\ panicked = FALSE
    /\ cap = [i \in Outputs |-> NewCapture]
    /\ queue = [i \in Outputs |-> <<>>]
    /\ script = [i \in Outputs |-> <<>>]
    /\ budget = [i \in Outputs |-> 0]
    /\ dispatched = [i \in Outputs |-> <<>>]
    /\ call = NoCall
    /\ cpc = "idle"
    /\ ret = "none"
    /\ image = NoImage
    /\ cfc = NewJoin
    /\ layer = NoLayer
    /\ lqueue = <<>>
    /\ lbudget = 0
    /\ rot = [i \in Outputs |-> NewRotation]
    /\ acc = NewFold
    /\ refresh = NoRefresh
    /\ rqueue = <<>>
    /\ renv = NoRefreshEvents

NextRegion ==
    \/ Overlaps
    \/ TryFrom
    \/ ComposeOutputs

SpecRegion == InitRegion /\ [][NextRegion]_vars

-----------------------------------------------------------------------------
(* Claims about one capture, checked under Spec *)

Errors == {"FramecopyFailed", "NoSupportedBufferFormat", "ProtocolNotFound"}

FailedBeforeReady(handled) ==
    \E k \in 1..Len(handled) :
        /\ handled[k].type = "Failed"
        /\ \A j \in 1..(k - 1) : handled[j].type # "Ready"

\* C1: a capture that handled a Failed event before any Ready event returns
\* an error and hands out no FrameGuard, whatever events followed the Failed.
C1_FailedBeforeReadyReturnsError ==
    \A i \in Outputs :
        (cap[i].pc = "returned" /\ FailedBeforeReady(dispatched[i]))
            => (cap[i].result \in Errors /\ cap[i].frame_guard = "none")

\* C2: a capture that fails with NoSupportedBufferFormat has created no
\* shared-memory file descriptor, no pool and no buffer.
C2_NoFormatAllocatesNothing ==
    \A i \in Outputs :
        cap[i].result = "NoSupportedBufferFormat"
            => (cap[i].fd = "none" /\ ~cap[i].shm_pool /\ ~cap[i].buffer)

BufferOffers(handled) == SelectSeq(handled, LAMBDA ev : ev.type = "Buffer")

IsFirstAllowlisted(offers, k) ==
    /\ k \in 1..Len(offers)
    /\ offers[k].format \in Allowlist
    /\ \A j \in 1..(k - 1) : offers[j].format \notin Allowlist

\* C6: once a capture is past BufferDone, its frame format is the first
\* Buffer offer, in order of arrival, whose format is allowlisted; with no
\* such offer the capture returned NoSupportedBufferFormat.
C6_FirstAllowlistedByArrival ==
    \A i \in Outputs :
        (cap[i].state.buffer_done /\ cap[i].pc \in {"copying", "returned", "panicked"})
            => LET offers == BufferOffers(dispatched[i])
               IN  IF \E k \in 1..Len(offers) : offers[k].format \in Allowlist
                   THEN \E k \in 1..Len(offers) :
                           /\ IsFirstAllowlisted(offers, k)
                           /\ cap[i].frame_format.format = offers[k].format
                           /\ cap[i].frame_format.width = offers[k].width
                           /\ cap[i].frame_format.height = offers[k].height
                           /\ cap[i].frame_format.stride = offers[k].stride
                   ELSE /\ cap[i].result = "NoSupportedBufferFormat"
                        /\ cap[i].frame_format = NoFormat

\* C6 witness: two allowlisted formats were offered, the later one earlier
\* in the allowlist, and the capture selected the one that arrived first.
C6_Witness ==
    \E i \in Outputs :
        /\ cap[i].pc = "returned"
        /\ cap[i].frame_format.format = "Argb8888"
        /\ \E k \in 1..Len(cap[i].state.formats) :
              cap[i].state.formats[k].format = "Xbgr2101010"

\* C7: a capture that requested its copy, handled a Failed event and
\* returned, returned the error FramecopyFailed to its caller; and the
\* process neither exited nor panicked on the way.
C7_FailedIsAReturnedError ==
    \A i \in Outputs :
        (/\ cap[i].copied
         /\ cap[i].pc = "returned"
         /\ \E k \in 1..Len(dispatched[i]) : dispatched[i][k].type = "Failed")
            => /\ cap[i].result = "FramecopyFailed"
               /\ ~exited
               /\ ~panicked
               /\ (cpc = "returned" => ret = "FramecopyFailed")

\* C8: no capture panics, and a capture that needs a global the compositor
\* lacks returns ProtocolNotFound.
C8_MissingGlobalIsProtocolNotFound ==
    \A i \in Outputs :
        /\ cap[i].pc # "panicked"
        /\ (cap[i].pc = "returned" /\ ScreencopyManager \notin globals)
               => cap[i].result = "ProtocolNotFound"
        /\ (cap[i].pc = "returned" /\ Shm \notin globals
                /\ cap[i].frame_format # NoFormat)
               => cap[i].result = "ProtocolNotFound"

-----------------------------------------------------------------------------
(* Claims about a screenshot of several outputs, checked under SpecShot *)

\* C3: when capture_frame_copies has returned, it returned Ok exactly if the
\* capture of every output in the output list succeeded.
C3_AnyFailureFailsTheCall ==
    cfc.returned =>
        (cfc.result = "Ok" <=> \A i \in DOMAIN output_infos : cap[i].result = "Ok")

\* screenshot joined every rotation thread and returned what it folded.
Folded ==
    /\ cpc = "returned"
    /\ InScreenshot
    /\ cfc.frames # <<>>
    /\ \A k \in DOMAIN cfc.frames : rot[cfc.frames[k]].pc = "done"

\* C4: the result of screenshot is the conjunction of the per-frame
\* results: an error of any frame makes it an error, and an image that is
\* returned holds every frame.
C4_ResultIsConjunction ==
    Folded =>
        /\ (\E k \in DOMAIN cfc.frames : rot[cfc.frames[k]].result # "Ok")
               => ret # "Ok"
        /\ ret = "Ok" => image.layers = cfc.frames

\* C5: while the map of a frame is read, the frame's guard is alive.
C5_GuardOutlivesTheRead ==
    \A i \in Outputs :
        cap[i].frame_mmap = "reading" => cap[i].frame_guard = "alive"

\* C9: screenshot_outputs of no output returns NoOutputs, and nothing was
\* done for it: no thread, no descriptor, no request to the compositor.
C9_EmptyOutputsIsNoOutputs ==
    (call.op = "screenshot_outputs" /\ call.outputs = <<>>)
        => /\ ret = "NoOutputs"
           /\ cpc = "returned"
           /\ ~panicked
           /\ \A i \in Outputs : cap[i] = NewCapture /\ rot[i] = NewRotation
           /\ \A i \in Outputs : queue[i] = <<>> /\ dispatched[i] = <<>>
           /\ cfc = NewJoin
           /\ layer = NoLayer

\* C9 witness: the call was made with no output and has returned.
C9_Witness ==
    /\ call.op = "screenshot_outputs"
    /\ call.outputs = <<>>
    /\ ret = "NoOutputs"

-----------------------------------------------------------------------------
(* Claims about the output list, checked under SpecRefresh *)

\* The announcements of a refresh that its registry handler bound.
Enumerated(handled) ==
    SelectSeq(handled, LAMBDA ev :
        /\ ev.proxy = "wl_registry"
        /\ ev.type = "Global"
        /\ ev.text = "wl_output"
        /\ ev.x >= 4)

\* C10: after a refresh returned, get_all_outputs is the list of the
\* outputs that refresh enumerated, in the order of their discovery: each
\* was bound by that refresh, and none appears twice.
C10_RefreshReplacesOutputs ==
    (refresh.pc = "idle" /\ refresh.calls >= 1)
        => LET found == Enumerated(refresh.handled)
               outs == get_all_outputs
           IN  /\ Len(outs) = Len(found)
               /\ \A k \in DOMAIN outs :
                     /\ outs[k].wl_output.global = found[k].index
                     /\ outs[k].wl_output.id > refresh.binds - Len(found)
               /\ \A j, k \in DOMAIN outs :
                     j # k => outs[j].wl_output # outs[k].wl_output

\* C10 witness: a second refresh returned with one output after the first
\* had found two.
C10_Witness ==
    /\ refresh.pc = "idle"
    /\ refresh.calls = 2
    /\ refresh.binds = 3
    /\ Len(output_infos) = 1

\* C11: a refresh that enumerated no usable output ends the process and
\* does not return: a refresh that returned found at least one output, the
\* process exits only at the end of a refresh that found none, and once a
\* connection is constructed its output list is never empty.
C11_EmptyRefreshIsFatal ==
    /\ refresh.calls >= 1 => get_all_outputs # <<>>
    /\ (refresh.pc = "idle" /\ refresh.calls >= 1) => refresh.state.outputs # <<>>
    /\ exited => (refresh.pc = "roundtrip3" /\ refresh.state.outputs = <<>>)

\* C11 witness: on a constructed connection a later refresh found no usable
\* output and the process exited, the list of the connection still held.
C11_Witness ==
    /\ exited
    /\ refresh.calls = 1
    /\ refresh.state.outputs = <<>>
    /\ Len(refresh.handled) >= 1
    /\ output_infos # <<>>

-----------------------------------------------------------------------------
(* Claims about the outputs a screenshot captures and how it composes them,
   checked under SpecShot *)

\* The outputs of the connection that a call of screenshot_outputs named.
Requested(i) == \E k \in DOMAIN call.outputs : call.outputs[k] = output_infos[i]

\* C12: screenshot_outputs runs a capture for every output it was asked for,
\* and for no other output of the connection.
C12_CapturesExactlyTheRequested ==
    call.op = "screenshot_outputs" =>
        \A i \in DOMAIN output_infos :
            /\ cap[i].pc # "unspawned" => Requested(i)
            /\ (Requested(i) /\ cpc # "idle") => cap[i].pc # "unspawned"

\* The area of output i in the compositor's logical space.
Geometry(i) ==
    [x_coordinate |-> output_infos[i].dimensions.x,
     y_coordinate |-> output_infos[i].dimensions.y,
     width |-> output_infos[i].dimensions.width,
     height |-> output_infos[i].dimensions.height]

\* screenshot returned an image, after the capture of every output of the
\* connection and the conversion of every frame had succeeded.
ReturnedImage ==
    /\ InScreenshot
    /\ cpc = "returned"
    /\ ret = "Ok"
    /\ \A i \in DOMAIN output_infos : cap[i].result = "Ok" /\ rot[i].result = "Ok"

\* C13: the image screenshot returns has the size of the capture region, and
\* holds every frame whose output overlaps the region, pasted where the
\* output lies relative to the region's origin.
C13_ImageIsTheRegion ==
    ReturnedImage =>
        LET region == call.capture_region
        IN  /\ image.width = region.width
            /\ image.height = region.height
            /\ \A k \in DOMAIN cfc.frames :
                  overlaps(Geometry(cfc.frames[k]), region)
                      => \E j \in DOMAIN image.layers :
                            /\ image.layers[j] = cfc.frames[k]
                            /\ image.at[j].x =
                                   Geometry(cfc.frames[k]).x_coordinate
                                       - region.x_coordinate
                            /\ image.at[j].y =
                                   Geometry(cfc.frames[k]).y_coordinate
                                       - region.y_coordinate

\* C14: the image screenshot returns holds no frame of an output that lies
\* wholly outside the capture region.
C14_OutsideFramesAreSkipped ==
    ReturnedImage =>
        \A j \in DOMAIN image.layers :
            overlaps(Geometry(image.layers[j]), call.capture_region)

\* C15: when every capture and conversion succeeded and the region overlaps
\* none of the captured outputs, screenshot returns NoOutputs and no image.
C15_NoOverlapIsNoOutputs ==
    (/\ InScreenshot
     /\ cpc = "returned"
     /\ \A i \in DOMAIN output_infos : cap[i].result = "Ok" /\ rot[i].result = "Ok"
     /\ \A i \in DOMAIN output_infos : ~overlaps(Geometry(i), call.capture_region))
        => /\ ret = "NoOutputs"
           /\ image = NoImage

-----------------------------------------------------------------------------
(* Claims about region computations, checked under SpecRegion *)

\* One region ends before the other begins, on the x axis or on the y axis.
StrictlyOutside(a, b) ==
    \/ a.x_coordinate + a.width < b.x_coordinate
    \/ b.x_coordinate + b.width < a.x_coordinate
    \/ a.y_coordinate + a.height < b.y_coordinate
    \/ b.y_coordinate + b.height < a.y_coordinate

\* C16: overlaps gives the same answer in both directions, and the answer
\* is false for two regions of which one lies strictly outside the other's
\* bounds on some axis.
C16_OverlapsIsSymmetric ==
    computed.op = "overlaps" =>
        /\ computed.ab = computed.ba
        /\ StrictlyOutside(given.a, given.b) => (~computed.ab /\ ~computed.ba)

\* C16 witness: the regions {0,0,100,100} and {200,0,50,50} were compared
\* in both directions and do not overlap.
C16_Witness ==
    /\ computed.op = "overlaps"
    /\ given.a = Region(0, 0, 100, 100)
    /\ given.b = Region(200, 0, 50, 50)
    /\ ~computed.ab
    /\ ~computed.ba

\* C17: a region whose width and height are not negative overlaps itself.
C17_OverlapsIsReflexive ==
    (/\ computed.op = "overlaps"
     /\ given.a.width >= 0
     /\ given.a.height >= 0)
        => computed.aa

\* region is the bounding box of the outputs: its near edges are the least
\* near edges and its far edges the greatest far edges.
IsBoundingBox(region, outputs) ==
    /\ \A k \in DOMAIN outputs :
          /\ region.x_coordinate <= outputs[k].dimensions.x
          /\ region.y_coordinate <= outputs[k].dimensions.y
          /\ outputs[k].dimensions.x + outputs[k].dimensions.width
                 <= region.x_coordinate + region.width
          /\ outputs[k].dimensions.y + outputs[k].dimensions.height
                 <= region.y_coordinate + region.height
    /\ \E k \in DOMAIN outputs : region.x_coordinate = outputs[k].dimensions.x
    /\ \E k \in DOMAIN outputs : region.y_coordinate = outputs[k].dimensions.y
    /\ \E k \in DOMAIN outputs :
          region.x_coordinate + region.width
              = outputs[k].dimensions.x + outputs[k].dimensions.width
    /\ \E k \in DOMAIN outputs :
          region.y_coordinate + region.height
              = outputs[k].dimensions.y + outputs[k].dimensions.height

\* C18: for a list of at least one output, try_from and screenshot_outputs
\* both compute the bounding box of the outputs, the same region, and
\* try_from of that region taken as one output returns it again.
C18_BoundingBox ==
    /\ (computed.op = "try_from" /\ ~computed.panics)
           => /\ IsBoundingBox(computed.region, given.outputs)
              /\ computed.again = computed.region
              /\ computed.region = BoundingRegion(given.outputs)
    /\ (computed.op = "screenshot_outputs" /\ computed.ret = "Ok")
           => /\ IsBoundingBox(computed.capture_region, given.outputs)
              /\ computed.capture_region = TryFromOutputs(given.outputs)

\* C18 witness: the bounding box of two outputs that lie apart, the first
\* one left of the origin.
C18_Witness ==
    /\ computed.op = "try_from"
    /\ ~computed.panics
    /\ Len(given.outputs) = 2
    /\ computed.region.x_coordinate = -1
    /\ computed.region.width = 5
    /\ computed.region.height = 3

\* C19: for a 1920x1080 output at (0,0) and a 1080x1920 output at (1920,0)
\* that is rotated by a quarter turn, the screenshot of both is a canvas of
\* 2920x1920 in which the second output's rotated frame, 1080x1920, lies at
\* the x offset 1920.
C19_TwoOutputScene ==
    (/\ computed.op = "screenshot_outputs"
     /\ given.outputs = Scene)
        => /\ computed.capture_region = Region(0, 0, 2920, 1920)
           /\ computed.rotated[2].width = 1080
           /\ computed.rotated[2].height = 1920
           /\ computed.image.width = 2920
           /\ computed.image.height = 1920
           /\ \E j \in DOMAIN computed.image.layers :
                 /\ computed.image.layers[j] = 2
                 /\ computed.image.at[j] = [x |-> 1920, y |-> 0]

-----------------------------------------------------------------------------
(* Claims about the order of a capture's steps, checked under Spec *)

BufferDoneHandled(handled) ==
    \E k \in 1..Len(handled) : handled[k].type = "BufferDone"

\* C20: a capture has selected a format, created its pool and buffer or
\* requested the copy only after it handled BufferDone; until then it has
\* only recorded the offers it handled.
C20_BufferDoneGatesTheCapture ==
    \A i \in Outputs :
        /\ (\/ cap[i].frame_format # NoFormat
            \/ cap[i].shm_pool
            \/ cap[i].buffer
            \/ cap[i].copied)
               => BufferDoneHandled(dispatched[i])
        /\ (~BufferDoneHandled(dispatched[i]) /\ ~exited)
               => /\ cap[i].pc \in {"unspawned", "start", "negotiating", "returned"}
                  /\ cap[i].result \in {"none", "ProtocolNotFound"}
                  /\ LET offers == BufferOffers(dispatched[i])
                     IN  /\ Len(cap[i].state.formats) = Len(offers)
                         /\ \A k \in 1..Len(offers) :
                               cap[i].state.formats[k].format = offers[k].format

\* C20 witness: a capture requested its copy after BufferDone came as the
\* third event, behind two offers.
C20_Witness ==
    \E i \in Outputs :
        /\ cap[i].copied
        /\ cap[i].shm_pool
        /\ Len(dispatched[i]) = 3
        /\ dispatched[i][1].type = "Buffer"
        /\ dispatched[i][2].type = "Buffer"
        /\ dispatched[i][3].type = "BufferDone"

-----------------------------------------------------------------------------
(* Claims about the file, the map and the overlay, checked under Spec and
   SpecShot *)

ReadyHandled(handled) ==
    \E k \in 1..Len(handled) : handled[k].type = "Ready"

\* C21: when the copy is requested the file already has stride * height
\* bytes of the selected format, and a capture's map exists (created,
\* converted, being read or dropped) only when its frame state is Finished
\* and a Ready event was handled; no map exists while the outcome is pending
\* or Failed.
C21_MapOnlyAfterFinished ==
    \A i \in Outputs :
        /\ cap[i].copied
              => /\ cap[i].frame_format # NoFormat
                 /\ cap[i].file_len
                       = cap[i].frame_format.stride * cap[i].frame_format.height
                 /\ cap[i].file_len > 0
        /\ cap[i].frame_mmap # "none"
              => /\ cap[i].copied
                 /\ cap[i].state.state = "Finished"
                 /\ ReadyHandled(dispatched[i])
        /\ cap[i].state.state \in {"None", "Failed"} => cap[i].frame_mmap = "none"

\* C21 witness: a map is being read after Ready was handled, in a file of
\* the 1 x 3 format's 12 bytes.
C21_Witness ==
    \E i \in Outputs :
        /\ cap[i].frame_mmap = "reading"
        /\ cap[i].file_len = 12
        /\ ReadyHandled(dispatched[i])

\* C22: in the freeze overlay an output's buffer is committed only after
\* its surface was created and committed empty and a Configure of that
\* output's own layer surface was handled and acknowledged; while only other
\* outputs' Configures were handled, the output's buffer is not committed.
C22_ConfigureOfTheSameOutputGatesTheCommit ==
    /\ \A o \in layer.committed :
          /\ o \in layer.surfaces
          /\ o \in layer.acked
          /\ \E f \in 1..layer.frame : <<o, f>> \in layer.configures
    /\ \A o \in layer.surfaces :
          (\A c \in layer.configures : c[1] # o) => o \notin layer.committed

\* C22 witness: while the overlay waited for the configure of its second
\* frame's output, a Configure of the first frame's output was handled; the
\* second output's buffer is not committed and the wait goes on.
C22_Witness ==
    /\ cpc = "overlay"
    /\ layer.frame = 2
    /\ layer.phase = "configure"
    /\ LET first == output_infos[cfc.frames[1]].wl_output
           second == output_infos[cfc.frames[2]].wl_output
       IN  /\ <<first, 2>> \in layer.configures
           /\ first \in layer.committed
           /\ second \in layer.surfaces
           /\ second \notin layer.committed

-----------------------------------------------------------------------------
(* Claims about the discovery of outputs, checked under SpecRefresh *)

\* The announcements in a batch of events that the claim says are bound.
AnnouncedOutputs(pending) ==
    SelectSeq(pending, LAMBDA ev :
        /\ ev.proxy = "wl_registry"
        /\ ev.type = "Global"
        /\ ev.text = "wl_output"
        /\ ev.x >= 4)

IsDefaultOutputInfo(info) ==
    /\ info.name = ""
    /\ info.description = ""
    /\ info.transform = "Normal"
    /\ info.scale = 1
    /\ info.dimensions = [x |-> 0, y |-> 0, width |-> 0, height |-> 0]
    /\ info.mode = [width |-> 0, height |-> 0]

\* C23: a roundtrip of a refresh lengthens the list of discovered outputs
\* by one entry per announcement of a wl_output of version 4 or more that
\* it handled, in their order, each entry with empty name and description,
\* Normal transform, scale 1 and default geometry and mode; announcements of
\* lower versions and of other interfaces add nothing, and no entry is
\* removed or moved.
C23_AnnouncementAppendsOneDefault ==
    [][(/\ refresh.pc \in {"roundtrip1", "roundtrip2", "roundtrip3"}
        /\ rqueue # <<>>
        /\ rqueue' = <<>>
        /\ ~panicked')
          => LET old == refresh.state.outputs
                 new == refresh'.state.outputs
                 bound == AnnouncedOutputs(rqueue)
             IN  /\ Len(new) = Len(old) + Len(bound)
                 /\ \A k \in DOMAIN old : new[k].wl_output = old[k].wl_output
                 /\ \A k \in DOMAIN bound :
                       /\ IsDefaultOutputInfo(new[Len(old) + k])
                       /\ new[Len(old) + k].wl_output.global = bound[k].index
                       /\ \A j \in DOMAIN new :
                             j # Len(old) + k
                                => new[j].wl_output # new[Len(old) + k].wl_output
      ]_vars

\* C23 witness: a refresh has handled an announcement of a wl_output of
\* version 3, one of a wl_seat and one of a wl_output of version 4, and its
\* list holds one output, all defaults.
C23_Witness ==
    /\ Len(refresh.handled) = 3
    /\ \E k \in 1..3 : refresh.handled[k].text = "wl_seat"
    /\ \E k \in 1..3 : refresh.handled[k].text = "wl_output" /\ refresh.handled[k].x = 3
    /\ \E k \in 1..3 : refresh.handled[k].text = "wl_output" /\ refresh.handled[k].x = 4
    /\ Len(refresh.state.outputs) = 1
    /\ IsDefaultOutputInfo(refresh.state.outputs[1])

\* C24: in a refresh no position query exists during the first two
\* roundtrips; after the second there is one query per output discovered so
\* far; the queries are destroyed only by the step that completes the third
\* roundtrip; and every output of the list the refresh stores had its
\* position queried.
C24_EveryStoredOutputWasQueried ==
    /\ [](refresh.pc \in {"roundtrip1", "roundtrip2"} => refresh.xdg_outputs = <<>>)
    /\ [][/\ (refresh.pc = "roundtrip2" /\ refresh'.pc = "roundtrip3")
                => /\ DOMAIN refresh'.xdg_outputs = DOMAIN refresh'.state.outputs
                   /\ \A k \in DOMAIN refresh'.xdg_outputs :
                         refresh'.xdg_outputs[k] = k
          /\ (refresh.xdg_outputs # <<>> /\ refresh'.xdg_outputs = <<>>)
                => (refresh.pc = "roundtrip3" /\ rqueue' = <<>>)
          /\ (refresh.pc = "roundtrip3" /\ refresh'.pc = "idle")
                => \A k \in DOMAIN output_infos' :
                      \E q \in DOMAIN refresh.xdg_outputs : refresh.xdg_outputs[q] = k
      ]_vars

-----------------------------------------------------------------------------
(* Claims about the property events of an output, checked under
   SpecProperties *)

\* The events of a batch that carry a value for one kind of property of
\* the output at position k of the list.
PropertyEvents(pending, k, wl_output, type) ==
    SelectSeq(pending, LAMBDA ev :
        /\ ev.type = type
        /\ \/ ev.proxy = "wl_output" /\ ev.object = wl_output
           \/ ev.proxy = "zxdg_output_v1" /\ ev.index = k
        /\ ev.type = "Geometry" => ev.text # "Unknown")

\* C25: after a roundtrip each field of each OutputInfo holds the value of
\* the last event of the batch that is of the field's kind and for that
\* output, and its old value when the batch has no such event: Name sets
\* the name, Description the description, Mode the mode, Geometry the
\* transform, Scale the scale, LogicalPosition the logical x and y,
\* LogicalSize the logical width and height, and nothing else changes.
C25_PropertyEventSetsItsFieldOnly ==
    [][(/\ refresh.pc \in {"roundtrip2", "roundtrip3"}
        /\ rqueue # <<>>
        /\ rqueue' = <<>>
        /\ ~panicked')
          => \A k \in DOMAIN refresh.state.outputs :
                LET old == refresh.state.outputs[k]
                    new == refresh'.state.outputs[k]
                    evs(type) == PropertyEvents(rqueue, k, old.wl_output, type)
                    last(type) == evs(type)[Len(evs(type))]
                    none(type) == evs(type) = <<>>
                IN  /\ new.wl_output = old.wl_output
                    /\ new.name = IF none("Name") THEN old.name
                                  ELSE last("Name").text
                    /\ new.description = IF none("Description") THEN old.description
                                         ELSE last("Description").text
                    /\ new.mode = IF none("Mode") THEN old.mode
                                  ELSE [width |-> last("Mode").x,
                                        height |-> last("Mode").y]
                    /\ new.transform = IF none("Geometry") THEN old.transform
                                       ELSE last("Geometry").text
                    /\ new.scale = IF none("Scale") THEN old.scale
                                   ELSE last("Scale").x
                    /\ new.dimensions.x = IF none("LogicalPosition")
                                          THEN old.dimensions.x
                                          ELSE last("LogicalPosition").x
                    /\ new.dimensions.y = IF none("LogicalPosition")
                                          THEN old.dimensions.y
                                          ELSE last("LogicalPosition").y
                    /\ new.dimensions.width = IF none("LogicalSize")
                                              THEN old.dimensions.width
                                              ELSE last("LogicalSize").x
                    /\ new.dimensions.height = IF none("LogicalSize")
                                               THEN old.dimensions.height
                                               ELSE last("LogicalSize").y
      ]_vars

\* C25 witness: the second output has its name and nothing else, and the
\* first output its logical position and nothing else.
C25_Witness ==
    /\ Len(refresh.state.outputs) >= 2
    /\ refresh.state.outputs[2] =
          [NewOutputInfo(refresh.state.outputs[2].wl_output) EXCEPT !.name = "DP-1"]
    /\ refresh.state.outputs[1] =
          [NewOutputInfo(refresh.state.outputs[1].wl_output) EXCEPT
              !.dimensions = [x |-> 2, y |-> 1, width |-> 0, height |-> 0]]

-----------------------------------------------------------------------------
(* Claims about the events of a frame, checked under Spec *)

Informational == {"Flags", "Damage", "LinuxDmabuf"}

\* The events of a batch that are not informational.
Effective(pending) == SelectSeq(pending, LAMBDA ev : ev.type \notin Informational)

\* C26: a dispatch leaves a capture's state as the events of its batch
\* other than Flags, Damage and LinuxDmabuf make it: the formats are
\* lengthened by the batch's offers, the negotiation flag is set only by a
\* BufferDone, the outcome is that of the batch's last Ready or Failed, and
\* a batch of nothing but Flags, Damage and LinuxDmabuf changes none of the
\* three, whatever the state they arrive in.
C26_InformationalEventsChangeNothing ==
    [][\A i \in Outputs :
          (queue[i] # <<>> /\ queue'[i] = <<>> /\ ~exited')
             => LET old == cap[i].state
                    new == cap'[i].state
                    rest == Effective(queue[i])
                    offers == BufferOffers(rest)
                    outcomes == SelectSeq(rest, LAMBDA ev :
                                    ev.type \in {"Ready", "Failed"})
                IN  /\ Len(new.formats) = Len(old.formats) + Len(offers)
                    /\ \A k \in DOMAIN old.formats : new.formats[k] = old.formats[k]
                    /\ \A k \in DOMAIN offers :
                          new.formats[Len(old.formats) + k].format = offers[k].format
                    /\ new.buffer_done
                          = (old.buffer_done \/ BufferDoneHandled(rest))
                    /\ new.state
                          = IF outcomes = <<>> THEN old.state
                            ELSE IF outcomes[Len(outcomes)].type = "Ready"
                                 THEN "Finished" ELSE "Failed"
                    /\ rest = <<>> => new = old
      ]_vars

\* C26 witness: a capture handled an offer, a LinuxDmabuf, BufferDone and
\* then a Flags or a Damage; its state is one format, negotiation complete,
\* no outcome, and it waits for the outcome of its copy.
C26_Witness ==
    \E i \in Outputs :
        /\ Len(dispatched[i]) = 4
        /\ dispatched[i][1].type = "Buffer"
        /\ dispatched[i][2].type = "LinuxDmabuf"
        /\ dispatched[i][3].type = "BufferDone"
        /\ dispatched[i][4].type \in {"Flags", "Damage"}
        /\ cap[i].pc = "copying"
        /\ Len(cap[i].state.formats) = 1
        /\ cap[i].state.buffer_done
        /\ cap[i].state.state = "None"

-----------------------------------------------------------------------------
(* Claims about the concurrent captures of a screenshot, checked under
   SpecShot *)

\* The state a capture has after it handled these events and no other.
StateAfter(handled) ==
    LET offers == BufferOffers(handled)
        outcomes == SelectSeq(handled, LAMBDA ev : ev.type \in {"Ready", "Failed"})
    IN  [formats |-> [k \in DOMAIN offers |->
                         [format |-> offers[k].format, width |-> offers[k].width,
                          height |-> offers[k].height, stride |-> offers[k].stride]],
         state |-> IF outcomes = <<>> THEN "None"
                   ELSE IF outcomes[Len(outcomes)].type = "Ready"
                        THEN "Finished" ELSE "Failed",
         buffer_done |-> BufferDoneHandled(handled)]

FailedHandled(handled) ==
    \E k \in 1..Len(handled) : handled[k].type = "Failed"

\* C29: once a capture has handled a Failed event, at whatever point
\* after its capture request, it has returned an error: it is not back in a
\* wait for further events of the frame, BufferDone included.
C29_FailedEndsTheWait ==
    \A i \in Outputs :
        (FailedHandled(dispatched[i]) /\ ~exited)
            => (cap[i].pc = "returned" /\ cap[i].result \in Errors)

\* C30: when capture_frame_copies returns Ok, its list has one frame for
\* every output of the connection's output list, in the order of that list;
\* no thread that panicked is missing from it.
C30_OkHasOneFramePerOutput ==
    (cfc.returned /\ cfc.result = "Ok")
        => /\ cfc.frames = [k \in DOMAIN output_infos |-> k]
           /\ \A i \in DOMAIN output_infos : cap[i].pc # "panicked"

\* C31: during a refresh the list of discovered outputs only grows and no
\* entry moves; no handler's lookup fails, so the only panic of a
\* connection is that of a refresh that could not bind the position manager;
\* every wl_output the refresh bound has its OutputInfo; and through the
\* third roundtrip the index of each position query stays the position of
\* the output it was made for, outputs announced meanwhile included.
C31_DiscoveredOutputsOnlyGrow ==
    /\ [](/\ panicked => refresh.pc = "idle"
          /\ refresh.pc # "idle"
                => /\ Len(refresh.state.outputs) = Len(refresh.bound)
                   /\ \A k \in DOMAIN refresh.bound :
                         refresh.state.outputs[k].wl_output = refresh.bound[k]
                   /\ \A k \in DOMAIN refresh.xdg_outputs :
                         /\ refresh.xdg_outputs[k] \in DOMAIN refresh.state.outputs
                         /\ refresh.xdg_outputs[k] <= refresh.queried)
    /\ [][refresh.pc \in {"roundtrip1", "roundtrip2", "roundtrip3"}
             => /\ Len(refresh'.state.outputs) >= Len(refresh.state.outputs)
                /\ \A k \in DOMAIN refresh.state.outputs :
                      refresh'.state.outputs[k].wl_output
                         = refresh.state.outputs[k].wl_output
         ]_vars

\* C31 witness: a refresh returned two outputs having queried the position
\* of one: the second was announced during the third roundtrip, in which the
\* position of the first arrived under the index 1.
C31_Witness ==
    /\ refresh.pc = "idle"
    /\ refresh.calls >= 1
    /\ ~panicked
    /\ refresh.queried = 1
    /\ Len(output_infos) = 2
    /\ output_infos[1].dimensions.x = 2
    /\ output_infos[2].dimensions.x = 0

====
